---- MODULE Spec2Model ----
(***************************************************************************)
(* Model of the FPL data ingestion pipeline:                               *)
(*   src/src/data/data_transformers.py  (the three table builders)         *)
(*   src/src/data/fpl_api_client.py     (the API client)                   *)
(*   src/src/data/data_ingestion.py     (run_ingestion_pipeline, main)     *)
(*                                                                         *)
(* Encoding.                                                               *)
(*  - A JSON object (Python dict) is a function from its present keys to   *)
(*    values.  A key holding JSON null is modelled as an absent key: both  *)
(*    give None under dict.get(key).                                       *)
(*  - None / NaN / NaT is the empty tuple <<>>, a present value v is <<v>>.*)
(*  - A DataFrame is the sequence of its rows, each row a function from    *)
(*    column names to values; a row in which a column is missing holds NaN *)
(*    in that column.  df.empty is rows = <<>>.                            *)
(*  - kickoff_time is given in whole days; pd.to_datetime turns it into    *)
(*    seconds and days_rest divides the difference by 24 * 3600 again.     *)
(***************************************************************************)
EXTENDS Integers, Sequences, FiniteSets, TLC

VARIABLES
    pc,                \* position of the running function
    args,              \* [fetch_all_players, max_players] of the command line
    bootstrap_data,    \* local of run_ingestion_pipeline / argument of the builders
    fixtures_data,     \* local of run_ingestion_pipeline / argument of create_fixtures_table
    all_players_data,  \* local of run_ingestion_pipeline / argument of create_player_match_stats_raw
    fixtures_df,       \* local fixtures_df: [bound, rows]
    player_stats_df,   \* local player_stats_df: [bound, rows]
    team_stats_df,     \* local team_stats_df: [bound, rows]
    team_stats_agg,    \* create_team_match_stats: team_stats after groupby/agg, before the merge
    players,           \* get_all_players_data: the selected players
    player_idx,        \* get_all_players_data: position of the for loop in players
    all_player_data,   \* get_all_players_data: the list being built
    failed,            \* player ids whose detail fetch raised (observation only)
    saved,             \* files written so far, in order: [file, rows (their number)]
    steps,             \* pipeline steps started so far, in order: [name, raised] (observation only)
    exit_code          \* process exit status: <<>> while running, <<0>> or <<1>>

vars == <<pc, args, bootstrap_data, fixtures_data, all_players_data, fixtures_df,
          player_stats_df, team_stats_df, team_stats_agg, players, player_idx,
          all_player_data, failed, saved, steps, exit_code>>

----------------------------------------------------------------------------
(* Python / pandas primitives *)

None == <<>>

EmptyDict == [k \in {} |-> 0]

\* dict.get(key): the value, or None when the key is absent
Get(d, k) == IF k \in DOMAIN d THEN <<d[k]>> ELSE None

\* dict.get(key, default)
GetOr(d, k, default) == IF k \in DOMAIN d THEN d[k] ELSE default

\* pd.notna
notna(x) == x # None

\* a local that has not been assigned yet, and an assigned DataFrame
Unbound == [bound |-> FALSE, rows |-> <<>>]

DataFrame(records) == [bound |-> TRUE, rows |-> records]

\* ascending order of one sort key with na_position='last'
KeyLess(a, b) == notna(a) /\ (b = None \/ a[1] < b[1])

Max(S) == CHOOSE x \in S : \A y \in S : y <= x

Range(s) == {s[i] : i \in DOMAIN s}

----------------------------------------------------------------------------
(* create_fixtures_table *)

SecondsPerDay == 86400

\* teams_lookup = {t['id']: t for t in bootstrap_data['teams']}
TeamsLookup(bootstrap) ==
    [id \in {t.id : t \in Range(bootstrap.teams)} |->
        (CHOOSE t \in Range(bootstrap.teams) : t.id = id).name]

\* the optional name columns of a fixture record
NameColumns(teams_lookup, team, opponent) ==
    (IF notna(team) /\ team[1] \in DOMAIN teams_lookup
        THEN [k \in {"team_name"} |-> teams_lookup[team[1]]] ELSE EmptyDict)
    @@
    (IF notna(opponent) /\ opponent[1] \in DOMAIN teams_lookup
        THEN [k \in {"opponent_team_name"} |-> teams_lookup[opponent[1]]] ELSE EmptyDict)

\* AwayRecord with the home side's difficulty rating copied into it
AwayRecordHomeDifficulty(fixture, teams_lookup, season) ==
    [match_id |-> Get(fixture, "id"),
     season |-> season,
     gameweek |-> Get(fixture, "event"),
     team_id |-> Get(fixture, "team_a"),
     opponent_team_id |-> Get(fixture, "team_h"),
     was_home |-> FALSE,
     fixture_difficulty |-> GetOr(fixture, "team_h_difficulty", 0),
     kickoff_time |-> Get(fixture, "kickoff_time"),
     finished |-> GetOr(fixture, "finished", FALSE),
     team_a_score |-> Get(fixture, "team_a_score"),
     team_h_score |-> Get(fixture, "team_h_score")]

\* record: the away team's perspective
AwayRecord(fixture, teams_lookup, season) ==
    [match_id |-> Get(fixture, "id"),
     season |-> season,
     gameweek |-> Get(fixture, "event"),
     team_id |-> Get(fixture, "team_a"),
     opponent_team_id |-> Get(fixture, "team_h"),
     was_home |-> FALSE,
     fixture_difficulty |-> GetOr(fixture, "team_a_difficulty", 0),
     kickoff_time |-> Get(fixture, "kickoff_time"),
     finished |-> GetOr(fixture, "finished", FALSE),
     team_a_score |-> Get(fixture, "team_a_score"),
     team_h_score |-> Get(fixture, "team_h_score")]
    @@ NameColumns(teams_lookup, Get(fixture, "team_a"), Get(fixture, "team_h"))

\* record_home: the home team's perspective
HomeRecord(fixture, teams_lookup, season) ==
    [match_id |-> Get(fixture, "id"),
     season |-> season,
     gameweek |-> Get(fixture, "event"),
     team_id |-> Get(fixture, "team_h"),
     opponent_team_id |-> Get(fixture, "team_a"),
     was_home |-> TRUE,
     fixture_difficulty |-> GetOr(fixture, "team_h_difficulty", 0),
     kickoff_time |-> Get(fixture, "kickoff_time"),
     finished |-> GetOr(fixture, "finished", FALSE),
     team_a_score |-> Get(fixture, "team_a_score"),
     team_h_score |-> Get(fixture, "team_h_score")]
    @@ NameColumns(teams_lookup, Get(fixture, "team_h"), Get(fixture, "team_a"))

\* the loop over fixtures_data: two records per fixture, away first
RECURSIVE FixtureRecords(_, _, _)
FixtureRecords(fixtures, teams_lookup, season) ==
    IF fixtures = <<>> THEN <<>>
    ELSE <<AwayRecord(Head(fixtures), teams_lookup, season),
           HomeRecord(Head(fixtures), teams_lookup, season)>>
         \o FixtureRecords(Tail(fixtures), teams_lookup, season)

\* pd.to_datetime(..., errors='coerce'): seconds, NaT for a missing value
ToDatetime(kickoff) == IF notna(kickoff) THEN <<kickoff[1] * SecondsPerDay>> ELSE None

\* the order of sort_values(['team_id', 'gameweek', 'kickoff_time'])
FixtureRowLess(a, b) ==
    \/ KeyLess(a.team_id, b.team_id)
    \/ /\ a.team_id = b.team_id
       /\ \/ KeyLess(a.gameweek, b.gameweek)
          \/ /\ a.gameweek = b.gameweek
             /\ KeyLess(a.kickoff_time, b.kickoff_time)

\* insert row r after every row that is not greater than it (a stable sort)
RECURSIVE InsertFixtureRow(_, _)
InsertFixtureRow(sorted, r) ==
    IF sorted = <<>> THEN <<r>>
    ELSE IF FixtureRowLess(r, Head(sorted)) THEN <<r>> \o sorted
    ELSE <<Head(sorted)>> \o InsertFixtureRow(Tail(sorted), r)

RECURSIVE SortFixtures(_)
SortFixtures(rows) ==
    IF rows = <<>> THEN <<>>
    ELSE InsertFixtureRow(SortFixtures(SubSeq(rows, 1, Len(rows) - 1)),
                          rows[Len(rows)])

\* groupby('team_id')['kickoff_time'].diff() at row i: the difference to the
\* previous row of the same team, NaT for the group's first row, for a NaT
\* operand and for a row whose team_id is NaN (groupby drops it)
GroupDiff(rows, i) ==
    LET prev == {j \in 1..(i - 1) : rows[j].team_id = rows[i].team_id}
    IN  IF rows[i].team_id = None \/ prev = {} THEN None
        ELSE LET p == rows[Max(prev)]
             IN  IF notna(rows[i].kickoff_time) /\ notna(p.kickoff_time)
                 THEN <<rows[i].kickoff_time[1] - p.kickoff_time[1]>>
                 ELSE None

\* .dt.total_seconds() / (24 * 3600), then fillna(0)
DaysRest(rows, i) ==
    LET d == GroupDiff(rows, i)
    IN  IF notna(d) THEN d[1] \div SecondsPerDay ELSE 0

WithDaysRest(rows) ==
    LET parsed == [i \in DOMAIN rows |->
                      [rows[i] EXCEPT !.kickoff_time = ToDatetime(@)]]
        sorted == SortFixtures(parsed)
    IN  [i \in DOMAIN sorted |-> sorted[i] @@ [days_rest |-> DaysRest(sorted, i)]]

\* GwCount with groupby(..., dropna=False): a NaN key forms a group as well
GwCountKeepNaN(rows, team_id, gameweek) ==
    Cardinality({i \in DOMAIN rows :
                    rows[i].team_id = team_id /\ rows[i].gameweek = gameweek})

\* gw_counts.get((team_id, gameweek), 0): the size of the group; groupby
\* drops a key with a NaN component, so such a key is not found
GwCount(rows, team_id, gameweek) ==
    IF team_id = None \/ gameweek = None THEN 0
    ELSE Cardinality({i \in DOMAIN rows :
                         rows[i].team_id = team_id /\ rows[i].gameweek = gameweek})

WithDoubleGw(rows) ==
    [i \in DOMAIN rows |->
        rows[i] @@ [is_double_gw |-> GwCount(rows, rows[i].team_id, rows[i].gameweek) > 1]]

create_fixtures_table(fixtures, bootstrap, season) ==
    IF fixtures = <<>> THEN DataFrame(<<>>)
    ELSE DataFrame(WithDoubleGw(WithDaysRest(
             FixtureRecords(fixtures, TeamsLookup(bootstrap), season))))

----------------------------------------------------------------------------
(* create_player_match_stats_raw *)

\* players_lookup = {p['id']: p for p in bootstrap_data['elements']}
PlayersLookup(bootstrap) ==
    [id \in {p.id : p \in Range(bootstrap.elements)} |->
        CHOOSE p \in Range(bootstrap.elements) : p.id = id]

\* the columns read with match.get(key, 0) or match.get(key, 0.0)
NumericFields ==
    {"minutes", "total_points", "goals_scored", "assists", "clean_sheets",
     "goals_conceded", "own_goals", "penalties_saved", "penalties_missed",
     "yellow_cards", "red_cards", "saves", "bonus", "bps", "influence",
     "creativity", "threat", "ict_index", "value", "transfers_balance",
     "selected", "transfers_in", "transfers_out"}

\* PlayerMetadata with the team_id assignment left out
PlayerMetadataNoTeam(players_lookup, player_id) ==
    IF player_id \in DOMAIN players_lookup
    THEN [element_type |-> Get(players_lookup[player_id], "element_type")]
    ELSE EmptyDict

\* the metadata columns, added only if player_id is in players_lookup
PlayerMetadata(players_lookup, player_id) ==
    IF player_id \in DOMAIN players_lookup
    THEN [element_type |-> Get(players_lookup[player_id], "element_type"),
          team_id |-> Get(players_lookup[player_id], "team")]
    ELSE EmptyDict

\* record: one history entry of one player
PlayerRecord(player_id, match, players_lookup, season) ==
    [player_id |-> player_id,
     season |-> season,
     gameweek |-> Get(match, "round"),
     match_id |-> Get(match, "id"),
     opponent_team_id |-> Get(match, "opponent_team"),
     was_home |-> GetOr(match, "was_home", FALSE),
     minutes |-> GetOr(match, "minutes", 0),
     total_points |-> GetOr(match, "total_points", 0),
     goals_scored |-> GetOr(match, "goals_scored", 0),
     assists |-> GetOr(match, "assists", 0),
     clean_sheets |-> GetOr(match, "clean_sheets", 0),
     goals_conceded |-> GetOr(match, "goals_conceded", 0),
     own_goals |-> GetOr(match, "own_goals", 0),
     penalties_saved |-> GetOr(match, "penalties_saved", 0),
     penalties_missed |-> GetOr(match, "penalties_missed", 0),
     yellow_cards |-> GetOr(match, "yellow_cards", 0),
     red_cards |-> GetOr(match, "red_cards", 0),
     saves |-> GetOr(match, "saves", 0),
     bonus |-> GetOr(match, "bonus", 0),
     bps |-> GetOr(match, "bps", 0),
     influence |-> GetOr(match, "influence", 0),
     creativity |-> GetOr(match, "creativity", 0),
     threat |-> GetOr(match, "threat", 0),
     ict_index |-> GetOr(match, "ict_index", 0),
     value |-> GetOr(match, "value", 0),
     transfers_balance |-> GetOr(match, "transfers_balance", 0),
     selected |-> GetOr(match, "selected", 0),
     transfers_in |-> GetOr(match, "transfers_in", 0),
     transfers_out |-> GetOr(match, "transfers_out", 0)]
    @@ PlayerMetadata(players_lookup, player_id)

\* the inner loop: one record per entry of player_data.get('history', [])
HistoryRecords(player_entry, players_lookup, season) ==
    LET history == GetOr(player_entry.data, "history", <<>>)
    IN  [i \in DOMAIN history |->
            PlayerRecord(player_entry.player_id, history[i], players_lookup, season)]

\* the outer loop over all_players_data
RECURSIVE PlayerRecords(_, _, _)
PlayerRecords(entries, players_lookup, season) ==
    IF entries = <<>> THEN <<>>
    ELSE HistoryRecords(Head(entries), players_lookup, season)
         \o PlayerRecords(Tail(entries), players_lookup, season)

\* PlayerRowLess comparing the player ids only
PlayerRowLessPlayerOnly(a, b) == a.player_id < b.player_id

\* the order of sort_values(['player_id', 'season', 'gameweek']); season is
\* the same string in every row
PlayerRowLess(a, b) ==
    \/ a.player_id < b.player_id
    \/ /\ a.player_id = b.player_id
       /\ KeyLess(a.gameweek, b.gameweek)

RECURSIVE InsertPlayerRow(_, _)
InsertPlayerRow(sorted, r) ==
    IF sorted = <<>> THEN <<r>>
    ELSE IF PlayerRowLess(r, Head(sorted)) THEN <<r>> \o sorted
    ELSE <<Head(sorted)>> \o InsertPlayerRow(Tail(sorted), r)

RECURSIVE SortPlayers(_)
SortPlayers(rows) ==
    IF rows = <<>> THEN <<>>
    ELSE InsertPlayerRow(SortPlayers(SubSeq(rows, 1, Len(rows) - 1)), rows[Len(rows)])

create_player_match_stats_raw(bootstrap, entries, season) ==
    LET records == PlayerRecords(entries, PlayersLookup(bootstrap), season)
    IN  IF records = <<>> THEN DataFrame(<<>>) ELSE DataFrame(SortPlayers(records))

----------------------------------------------------------------------------
(* create_team_match_stats *)

\* the value of a column in a row of a DataFrame: NaN where the record that
\* made the row had no such key
Column(row, k) == IF k \in DOMAIN row THEN row[k] ELSE None

\* whether the DataFrame has the column at all
HasColumn(rows, k) == \E i \in DOMAIN rows : k \in DOMAIN rows[i]

\* the groupby key of a player row
GroupKey(row) ==
    [team_id |-> Column(row, "team_id"),
     season |-> row.season,
     gameweek |-> row.gameweek,
     match_id |-> row.match_id,
     opponent_team_id |-> row.opponent_team_id,
     was_home |-> row.was_home]

\* groupby (dropna=True) leaves out every row with a NaN key component
KeyComplete(key) ==
    /\ notna(key.team_id)
    /\ notna(key.gameweek)
    /\ notna(key.match_id)
    /\ notna(key.opponent_team_id)

\* groupby (sort=True) orders the groups by their keys
GroupKeyLess(a, b) ==
    LET ta == <<a.team_id[1], a.gameweek[1], a.match_id[1], a.opponent_team_id[1],
                IF a.was_home THEN 1 ELSE 0>>
        tb == <<b.team_id[1], b.gameweek[1], b.match_id[1], b.opponent_team_id[1],
                IF b.was_home THEN 1 ELSE 0>>
    IN  \E n \in 1..5 : ta[n] < tb[n] /\ \A m \in 1..(n - 1) : ta[m] = tb[m]

RECURSIVE SortedKeys(_)
SortedKeys(keys) ==
    IF keys = {} THEN <<>>
    ELSE LET first == CHOOSE k \in keys : \A other \in keys \ {k} : GroupKeyLess(k, other)
         IN  <<first>> \o SortedKeys(keys \ {first})

\* 'sum' and 'max' of a column over the rows (by index) of one group
RECURSIVE SumColumn(_, _, _)
SumColumn(rows, group, col) ==
    IF group = {} THEN 0
    ELSE LET i == CHOOSE j \in group : TRUE
         IN  rows[i][col] + SumColumn(rows, group \ {i}, col)

MaxColumn(rows, group, col) == Max({rows[i][col] : i \in group})

\* AggregateGroup with goals_conceded summed like the other counters
AggregateGroupSumConceded(rows, key) ==
    LET group == {i \in DOMAIN rows : GroupKey(rows[i]) = key}
    IN  key @@
        [goals_scored |-> SumColumn(rows, group, "goals_scored"),
         assists |-> SumColumn(rows, group, "assists"),
         clean_sheets |-> MaxColumn(rows, group, "clean_sheets"),
         goals_conceded |-> SumColumn(rows, group, "goals_conceded"),
         yellow_cards |-> SumColumn(rows, group, "yellow_cards"),
         red_cards |-> SumColumn(rows, group, "red_cards"),
         total_points |-> SumColumn(rows, group, "total_points"),
         bps |-> SumColumn(rows, group, "bps")]

\* .agg({...}) on the group of one key
AggregateGroup(rows, key) ==
    LET group == {i \in DOMAIN rows : GroupKey(rows[i]) = key}
    IN  key @@
        [goals_scored |-> SumColumn(rows, group, "goals_scored"),
         assists |-> SumColumn(rows, group, "assists"),
         clean_sheets |-> MaxColumn(rows, group, "clean_sheets"),
         goals_conceded |-> MaxColumn(rows, group, "goals_conceded"),
         yellow_cards |-> SumColumn(rows, group, "yellow_cards"),
         red_cards |-> SumColumn(rows, group, "red_cards"),
         total_points |-> SumColumn(rows, group, "total_points"),
         bps |-> SumColumn(rows, group, "bps")]

\* player_match_stats.groupby([...]).agg({...}).reset_index()
GroupByAgg(rows) ==
    LET keys == SortedKeys({k \in {GroupKey(rows[i]) : i \in DOMAIN rows} : KeyComplete(k)})
    IN  [n \in DOMAIN keys |-> AggregateGroup(rows, keys[n])]

\* the fixture rows a team row is joined with,
\* on ['match_id', 'team_id', 'opponent_team_id', 'was_home']
JoinMatches(team_row, fixture_rows) ==
    SelectSeq(fixture_rows,
              LAMBDA f : /\ f.match_id = team_row.match_id
                         /\ f.team_id = team_row.team_id
                         /\ f.opponent_team_id = team_row.opponent_team_id
                         /\ f.was_home = team_row.was_home)

\* merge(how='left'): a team row once per matching fixture row, with that
\* row's scores, or once with NaN scores if no fixture row matches
RECURSIVE MergeLeft(_, _)
MergeLeft(team_rows, fixture_rows) ==
    IF team_rows = <<>> THEN <<>>
    ELSE LET t == Head(team_rows)
             m == JoinMatches(t, fixture_rows)
         IN  (IF m = <<>>
              THEN <<t @@ [team_a_score |-> None, team_h_score |-> None]>>
              ELSE [n \in DOMAIN m |->
                       t @@ [team_a_score |-> m[n].team_a_score,
                             team_h_score |-> m[n].team_h_score]])
             \o MergeLeft(Tail(team_rows), fixture_rows)

\* the goals_scored lambda: A if was_home else (B if notna(team_h_score) else C)
ReconciledGoalsScored(row) ==
    IF row.was_home THEN row.team_h_score
    ELSE IF notna(row.team_h_score) THEN row.team_a_score
    ELSE <<row.goals_scored>>

\* the goals_conceded lambda: A if was_home else (B if notna(team_a_score) else C)
ReconciledGoalsConceded(row) ==
    IF row.was_home THEN row.team_a_score
    ELSE IF notna(row.team_a_score) THEN row.team_h_score
    ELSE <<row.goals_conceded>>

\* the merge and the two apply calls, skipped if fixtures is empty; the goal
\* columns hold NaN or a number from here on
Reconcile(team_rows, fixtures) ==
    IF fixtures.rows # <<>>
    THEN LET merged == MergeLeft(team_rows, fixtures.rows)
         IN  [n \in DOMAIN merged |->
                 [merged[n] EXCEPT !.goals_scored = ReconciledGoalsScored(merged[n]),
                                   !.goals_conceded = ReconciledGoalsConceded(merged[n])]]
    ELSE [n \in DOMAIN team_rows |->
             [team_rows[n] EXCEPT !.goals_scored = <<@>>, !.goals_conceded = <<@>>]]

\* rename(columns=...) and the two name columns (.map: NaN for an unknown id)
RenameAndName(row, teams_lookup) ==
    [k \in DOMAIN row \ {"goals_scored", "goals_conceded", "clean_sheets"} |-> row[k]]
    @@
    [team_goals |-> row.goals_scored,
     team_goals_conceded |-> row.goals_conceded,
     team_clean_sheet |-> row.clean_sheets,
     team_name |-> Get(teams_lookup, row.team_id[1]),
     opponent_team_name |-> Get(teams_lookup, row.opponent_team_id[1])]

\* the function: raised is TRUE for the KeyError of groupby on a missing
\* 'team_id' column; agg is team_stats after reset_index, df the table returned
create_team_match_stats(player_match_stats, fixtures, bootstrap) ==
    IF player_match_stats.rows = <<>>
    THEN [raised |-> FALSE, agg |-> <<>>, df |-> DataFrame(<<>>)]
    ELSE IF ~HasColumn(player_match_stats.rows, "team_id")
    THEN [raised |-> TRUE, agg |-> <<>>, df |-> Unbound]
    ELSE LET agg == GroupByAgg(player_match_stats.rows)
             reconciled == Reconcile(agg, fixtures)
         IN  [raised |-> FALSE,
              agg |-> agg,
              df |-> DataFrame([n \in DOMAIN reconciled |->
                                   RenameAndName(reconciled[n], TeamsLookup(bootstrap))])]

----------------------------------------------------------------------------
(* Inputs of the fixture table builder *)

MaxFixtures == 2

Season == "2024-25"

\* bootstrap_data['teams']: team 3 plays fixtures but is missing from bootstrap
BootstrapTeams == <<[id |-> 1, name |-> "ARS"], [id |-> 2, name |-> "CHE"]>>

Bootstrap(elements) == [teams |-> BootstrapTeams, elements |-> elements, events |-> <<>>]

GameweekValues == {None, <<1>>, <<2>>}

KickoffValues == {None, <<0>>, <<7>>}

\* <<team_h_score, team_a_score>>, None for a fixture not played yet
ScoreValues == {None, <<2, 1>>}

\* <<team_h, team_a>>
TeamPairs == {<<1, 2>>, <<2, 1>>, <<3, 1>>}

Opt(key, value) == IF notna(value) THEN [k \in {key} |-> value[1]] ELSE EmptyDict

\* one fixture object of the fixtures/ endpoint
RawFixture(id, event, pair, kickoff, score) ==
    [id |-> id, team_h |-> pair[1], team_a |-> pair[2],
     team_h_difficulty |-> 2, team_a_difficulty |-> 4, finished |-> notna(score)]
    @@ Opt("event", event) @@ Opt("kickoff_time", kickoff)
    @@ (IF notna(score)
        THEN [team_h_score |-> score[1], team_a_score |-> score[2]] ELSE EmptyDict)

FixtureChoices == GameweekValues \X TeamPairs \X KickoffValues \X ScoreValues

\* the fixture list of the given choices; the fixture at position i has id i
FixtureList(c) == [i \in DOMAIN c |-> RawFixture(i, c[i][1], c[i][2], c[i][3], c[i][4])]

----------------------------------------------------------------------------
(* Specification SpecFixtures: create_fixtures_table applied to every input *)

Idle ==
    /\ args = [fetch_all_players |-> FALSE, max_players |-> None]
    /\ players = <<>>
    /\ player_idx = 1
    /\ all_player_data = <<>>
    /\ failed = {}
    /\ saved = <<>>
    /\ steps = <<>>
    /\ exit_code = None

InitFixtures ==
    /\ pc = "create_fixtures_table"
    /\ bootstrap_data = Bootstrap(<<>>)
    /\ \E len \in 0..MaxFixtures : \E c \in [1..len -> FixtureChoices] :
          fixtures_data = FixtureList(c)
    /\ all_players_data = <<>>
    /\ fixtures_df = Unbound
    /\ player_stats_df = Unbound
    /\ team_stats_df = Unbound
    /\ team_stats_agg = <<>>
    /\ Idle

CallCreateFixturesTable ==
    /\ pc = "create_fixtures_table"
    /\ fixtures_df' = create_fixtures_table(fixtures_data, bootstrap_data, Season)
    /\ pc' = "returned"
    /\ UNCHANGED <<args, bootstrap_data, fixtures_data, all_players_data, player_stats_df,
                   team_stats_df, team_stats_agg, players, player_idx, all_player_data,
                   failed, saved, steps, exit_code>>

NextFixtures == CallCreateFixturesTable

SpecFixtures == InitFixtures /\ [][NextFixtures]_vars

FixturesReturned == pc = "returned" /\ fixtures_df.bound

\* the rows of the returned table that come from the fixture with this id
RowsOfMatch(id) == {i \in DOMAIN fixtures_df.rows : fixtures_df.rows[i].match_id = <<id>>}

\* C1: for a non-empty fixture list the table holds exactly two rows per raw
\* fixture, the away-perspective row and the home-perspective row, and both
\* carry the fixture's match id and its two scores.
C1_TwoRowsPerFixture ==
    (FixturesReturned /\ fixtures_data # <<>>) =>
        /\ Len(fixtures_df.rows) = 2 * Len(fixtures_data)
        /\ \A k \in DOMAIN fixtures_data :
              LET f == fixtures_data[k]
                  R == RowsOfMatch(f.id)
                  row(i) == fixtures_df.rows[i]
              IN  /\ Cardinality(R) = 2
                  /\ \E a, h \in R :
                        /\ a # h
                        /\ row(a).was_home = FALSE
                        /\ row(a).team_id = <<f.team_a>>
                        /\ row(a).opponent_team_id = <<f.team_h>>
                        /\ row(a).fixture_difficulty = f.team_a_difficulty
                        /\ row(h).was_home = TRUE
                        /\ row(h).team_id = <<f.team_h>>
                        /\ row(h).opponent_team_id = <<f.team_a>>
                        /\ row(h).fixture_difficulty = f.team_h_difficulty
                        /\ row(a).team_h_score = Get(f, "team_h_score")
                        /\ row(a).team_a_score = Get(f, "team_a_score")
                        /\ row(h).team_h_score = row(a).team_h_score
                        /\ row(h).team_a_score = row(a).team_a_score

\* a table built from a full-length list in which a played fixture occurs
C1_Witness ==
    /\ FixturesReturned
    /\ Len(fixtures_data) = MaxFixtures
    /\ Len(fixtures_df.rows) = 2 * MaxFixtures
    /\ \E i \in DOMAIN fixtures_df.rows : notna(fixtures_df.rows[i].team_h_score)

\* the rows of the returned table with the same team as row i, and those
\* with the same (team_id, gameweek) as row i
SameTeam(i) ==
    {j \in DOMAIN fixtures_df.rows : fixtures_df.rows[j].team_id = fixtures_df.rows[i].team_id}

SameTeamGameweek(i) ==
    {j \in SameTeam(i) : fixtures_df.rows[j].gameweek = fixtures_df.rows[i].gameweek}

\* every fixture of row i's team has a gameweek and a kickoff time, and no
\* two kickoff times coincide
KickoffsDistinct(i) ==
    \A j, k \in SameTeam(i) :
        /\ notna(fixtures_df.rows[j].gameweek)
        /\ notna(fixtures_df.rows[j].kickoff_time)
        /\ (j # k => fixtures_df.rows[j].kickoff_time # fixtures_df.rows[k].kickoff_time)

\* the team's kickoffs (in seconds) that precede row i's kickoff
EarlierKickoffs(i) ==
    {fixtures_df.rows[j].kickoff_time[1] : j \in
        {k \in SameTeam(i) :
            fixtures_df.rows[k].kickoff_time[1] < fixtures_df.rows[i].kickoff_time[1]}}

\* C4: days_rest of a row is the number of days since the same team's
\* chronologically preceding kickoff, and 0 for the team's chronologically
\* first fixture (stated for teams whose gameweeks and kickoffs are all known, the
\* kickoffs distinct).
C4_DaysRestChronological ==
    FixturesReturned =>
        \A i \in DOMAIN fixtures_df.rows :
            KickoffsDistinct(i) =>
                fixtures_df.rows[i].days_rest =
                    IF EarlierKickoffs(i) = {} THEN 0
                    ELSE (fixtures_df.rows[i].kickoff_time[1] - Max(EarlierKickoffs(i)))
                             \div SecondsPerDay

\* C5 as stated: is_double_gw is true exactly when more than one row of the
\* table has the row's (team_id, gameweek), a null gameweek included.
C5_DoubleGwAnyGameweek ==
    FixturesReturned =>
        \A i \in DOMAIN fixtures_df.rows :
            fixtures_df.rows[i].is_double_gw <=> (Cardinality(SameTeamGameweek(i)) > 1)

\* C5 amended: is_double_gw is true exactly when the row's gameweek is not
\* null and more than one row of the table has the row's (team_id, gameweek);
\* it is false on every row whose gameweek is null.
C5_DoubleGwScheduled ==
    FixturesReturned =>
        \A i \in DOMAIN fixtures_df.rows :
            fixtures_df.rows[i].is_double_gw <=>
                (notna(fixtures_df.rows[i].gameweek) /\ Cardinality(SameTeamGameweek(i)) > 1)

\* a table in which one team has a double gameweek and another team has not
C5_Witness ==
    /\ FixturesReturned
    /\ \E i, j \in DOMAIN fixtures_df.rows :
          /\ fixtures_df.rows[i].is_double_gw
          /\ Cardinality(SameTeamGameweek(i)) = 2
          /\ notna(fixtures_df.rows[j].gameweek)
          /\ ~fixtures_df.rows[j].is_double_gw

----------------------------------------------------------------------------
(* Inputs of the player table builder *)

MaxPlayers == 2

\* bootstrap_data['elements']: players 1 and 2 of team 1, player 3 of team 2
Elements ==
    <<[id |-> 1, element_type |-> 3, team |-> 1],
      [id |-> 2, element_type |-> 4, team |-> 1],
      [id |-> 3, element_type |-> 1, team |-> 2]>>

\* player ids of detail payloads; player 9 is not in bootstrap
PayloadPlayerIds == {1, 2, 3, 9}

\* history entries: a complete one, one of the same match without bonus, an
\* away entry of match 2 without was_home and most counters, the away side of
\* match 1, and an entry without any key; a history may hold an entry twice
EntryA ==
    [round |-> 1, id |-> 1, opponent_team |-> 2, was_home |-> TRUE, minutes |-> 90,
     total_points |-> 8, goals_scored |-> 1, assists |-> 1, clean_sheets |-> 1,
     goals_conceded |-> 0, own_goals |-> 0, penalties_saved |-> 0,
     penalties_missed |-> 0, yellow_cards |-> 1, red_cards |-> 0, saves |-> 0,
     bonus |-> 2, bps |-> 30, influence |-> 40, creativity |-> 10, threat |-> 50,
     ict_index |-> 10, value |-> 55, transfers_balance |-> 5, selected |-> 100,
     transfers_in |-> 10, transfers_out |-> 5]

EntryB ==
    [round |-> 1, id |-> 1, opponent_team |-> 2, was_home |-> TRUE, minutes |-> 75,
     total_points |-> 12, goals_scored |-> 2, assists |-> 0, clean_sheets |-> 0,
     goals_conceded |-> 1, yellow_cards |-> 0, red_cards |-> 1, bps |-> 41]

EntryC ==
    [round |-> 2, id |-> 2, opponent_team |-> 3, minutes |-> 60, total_points |-> 2,
     goals_scored |-> 1, goals_conceded |-> 2, bonus |-> 1]

EntryE ==
    [round |-> 1, id |-> 1, opponent_team |-> 1, was_home |-> FALSE, minutes |-> 90,
     total_points |-> 5, goals_scored |-> 1, assists |-> 0, clean_sheets |-> 0,
     goals_conceded |-> 3, yellow_cards |-> 2, red_cards |-> 0, bonus |-> 0, bps |-> 12]

Histories ==
    {<<>>, <<EntryA>>, <<EntryB>>, <<EntryE>>, <<EntryC, EntryA>>, <<EntryC, EntryB>>,
     <<EmptyDict, EntryE>>, <<EntryC, EntryA, EntryA>>}

\* the detail payload of one player: with or without a history
PlayerData == {EmptyDict} \cup {[history |-> h] : h \in Histories}

PayloadChoices == PayloadPlayerIds \X PlayerData

PlayersList(c) == [i \in DOMAIN c |-> [player_id |-> c[i][1], data |-> c[i][2]]]

----------------------------------------------------------------------------
(* Specification SpecPlayers: create_player_match_stats_raw applied to every input *)

InitPlayers ==
    /\ pc = "create_player_match_stats_raw"
    /\ bootstrap_data = Bootstrap(Elements)
    /\ fixtures_data = <<>>
    /\ \E len \in 0..MaxPlayers : \E c \in [1..len -> PayloadChoices] :
          all_players_data = PlayersList(c)
    /\ fixtures_df = Unbound
    /\ player_stats_df = Unbound
    /\ team_stats_df = Unbound
    /\ team_stats_agg = <<>>
    /\ Idle

CallCreatePlayerMatchStatsRaw ==
    /\ pc = "create_player_match_stats_raw"
    /\ player_stats_df' = create_player_match_stats_raw(bootstrap_data, all_players_data, Season)
    /\ pc' = "returned"
    /\ UNCHANGED <<args, bootstrap_data, fixtures_data, all_players_data, fixtures_df,
                   team_stats_df, team_stats_agg, players, player_idx, all_player_data,
                   failed, saved, steps, exit_code>>

NextPlayers == CallCreatePlayerMatchStatsRaw

SpecPlayers == InitPlayers /\ [][NextPlayers]_vars

PlayersReturned == pc = "returned" /\ player_stats_df.bound

\* the (payload, history entry) pairs of the input
HistoryOf(p) == GetOr(all_players_data[p].data, "history", <<>>)

HistoryPairs ==
    UNION {{<<p, j>> : j \in DOMAIN HistoryOf(p)} : p \in DOMAIN all_players_data}

\* row r holds the fields of history entry j of payload p, absent ones defaulted
RowOfPair(r, pj) ==
    LET match == HistoryOf(pj[1])[pj[2]]
    IN  /\ r.player_id = all_players_data[pj[1]].player_id
        /\ r.season = Season
        /\ r.gameweek = (IF "round" \in DOMAIN match THEN <<match.round>> ELSE None)
        /\ r.match_id = (IF "id" \in DOMAIN match THEN <<match.id>> ELSE None)
        /\ r.opponent_team_id =
              (IF "opponent_team" \in DOMAIN match THEN <<match.opponent_team>> ELSE None)
        /\ r.was_home = (IF "was_home" \in DOMAIN match THEN match.was_home ELSE FALSE)
        /\ \A k \in NumericFields : r[k] = (IF k \in DOMAIN match THEN match[k] ELSE 0)

BootstrapPlayer(id) == {e \in Range(bootstrap_data.elements) : e.id = id}

\* C7: the table holds exactly one row per (payload, history entry) pair, so
\* as many rows as the histories have entries; absent numeric fields are 0
\* and an absent was_home is false; element_type and team_id are columns of a
\* row exactly when the row's player is in bootstrap, and the other columns
\* are the same either way.
C7_OneRowPerHistoryEntry ==
    PlayersReturned =>
        LET rows == player_stats_df.rows
        IN  /\ Len(rows) = Cardinality(HistoryPairs)
            /\ \A i \in DOMAIN rows :
                  /\ Cardinality({j \in DOMAIN rows : rows[j] = rows[i]})
                        = Cardinality({pj \in HistoryPairs : RowOfPair(rows[i], pj)})
                  /\ DOMAIN rows[i] \ {"element_type", "team_id"}
                        = NumericFields \cup {"player_id", "season", "gameweek", "match_id",
                                              "opponent_team_id", "was_home"}
                  /\ \A e \in BootstrapPlayer(rows[i].player_id) :
                        /\ {"element_type", "team_id"} \subseteq DOMAIN rows[i]
                        /\ rows[i].element_type = <<e.element_type>>
                        /\ rows[i].team_id = <<e.team>>
                  /\ BootstrapPlayer(rows[i].player_id) = {} =>
                        DOMAIN rows[i] \cap {"element_type", "team_id"} = {}

\* a table with a row of a player missing from bootstrap whose entry lacks
\* its keys, and a row of a bootstrap player
C7_Witness ==
    /\ PlayersReturned
    /\ \E i, j \in DOMAIN player_stats_df.rows :
          /\ player_stats_df.rows[i].player_id = 9
          /\ "team_id" \notin DOMAIN player_stats_df.rows[i]
          /\ player_stats_df.rows[i].gameweek = None
          /\ player_stats_df.rows[i].bonus = 0
          /\ "team_id" \in DOMAIN player_stats_df.rows[j]
          /\ player_stats_df.rows[j].bonus = 2

\* the rows emitted by the two loops, in the order of emission
EmittedRows == PlayerRecords(all_players_data, PlayersLookup(bootstrap_data), Season)

\* how often a row occurs in a sequence of rows
Occurrences(rows, r) == Cardinality({i \in DOMAIN rows : rows[i] = r})

\* C11: the returned table is in ascending order of (player_id, season,
\* gameweek), the rows of a player without a gameweek after that player's
\* other rows; every emitted row occurs in it as often as it was emitted and
\* no other row occurs; with nothing emitted the table is empty.
C11_SortedPermutation ==
    PlayersReturned =>
        LET rows == player_stats_df.rows
        IN  /\ \A i, j \in DOMAIN rows :
                  i < j =>
                      /\ rows[i].player_id <= rows[j].player_id
                      /\ rows[i].player_id = rows[j].player_id =>
                            /\ rows[i].season = rows[j].season
                            /\ notna(rows[j].gameweek) =>
                                  /\ notna(rows[i].gameweek)
                                  /\ rows[i].gameweek[1] <= rows[j].gameweek[1]
            /\ Len(rows) = Len(EmittedRows)
            /\ \A r \in Range(rows) \cup Range(EmittedRows) :
                  Occurrences(rows, r) = Occurrences(EmittedRows, r)
            /\ all_players_data = <<>> => rows = <<>>

\* the rows were emitted out of order (a player's gameweek 2 before the same
\* player's gameweek 1, and a higher player id first) and one row was emitted twice
C11_Witness ==
    /\ PlayersReturned
    /\ player_stats_df.rows # EmittedRows
    /\ \E i, j \in DOMAIN EmittedRows :
          /\ i < j
          /\ EmittedRows[i].player_id = EmittedRows[j].player_id
          /\ EmittedRows[i].gameweek = <<2>>
          /\ EmittedRows[j].gameweek = <<1>>
    /\ \E i, j \in DOMAIN EmittedRows :
          /\ i < j
          /\ EmittedRows[i].player_id > EmittedRows[j].player_id
    /\ \E r \in Range(EmittedRows) : Occurrences(player_stats_df.rows, r) = 2

\* with no payload at all the table returned is the empty table
C11_WitnessEmpty ==
    /\ PlayersReturned
    /\ all_players_data = <<>>
    /\ player_stats_df.rows = <<>>

----------------------------------------------------------------------------
(* Inputs of the team table builder *)

MaxTeamFixtures == 2

MaxTeamPlayers == 2

\* <<id, event, <<team_h, team_a>>, kickoff, score>>: match 1 played and not
\* yet played, match 2 played and not yet played, and match 1 with the sides
\* exchanged (it joins with no row of the history entries)
TeamFixtureChoices ==
    {<<1, <<1>>, <<1, 2>>, <<0>>, <<2, 1>>>>,
     <<1, <<1>>, <<1, 2>>, <<0>>, None>>,
     <<2, <<2>>, <<3, 1>>, <<7>>, <<0, 3>>>>,
     <<2, <<2>>, <<3, 1>>, <<7>>, None>>,
     <<1, <<1>>, <<2, 1>>, <<0>>, <<1, 1>>>>}

TeamFixtureList(c) ==
    [i \in DOMAIN c |-> RawFixture(c[i][1], c[i][2], c[i][3], c[i][4], c[i][5])]

\* <<player_id, data>>
TeamPayloadChoices ==
    {<<1, [history |-> <<EntryA>>]>>,
     <<2, [history |-> <<EntryB>>]>>,
     <<2, [history |-> <<EntryC, EntryB>>]>>,
     <<3, [history |-> <<EntryE>>]>>,
     <<9, [history |-> <<EntryA>>]>>,
     <<1, [history |-> <<EmptyDict>>]>>,
     <<1, [history |-> <<>>]>>}

----------------------------------------------------------------------------
(* Specification SpecTeam: create_team_match_stats applied to the tables the *)
(* other two builders return                                                 *)

InitTeam ==
    /\ pc = "create_team_match_stats"
    /\ bootstrap_data = Bootstrap(Elements)
    /\ \E len \in 0..MaxTeamFixtures : \E c \in [1..len -> TeamFixtureChoices] :
          fixtures_data = TeamFixtureList(c)
    /\ \E len \in 0..MaxTeamPlayers : \E c \in [1..len -> TeamPayloadChoices] :
          all_players_data = PlayersList(c)
    /\ fixtures_df = create_fixtures_table(fixtures_data, bootstrap_data, Season)
    /\ player_stats_df = create_player_match_stats_raw(bootstrap_data, all_players_data, Season)
    /\ team_stats_df = Unbound
    /\ team_stats_agg = <<>>
    /\ Idle

CallCreateTeamMatchStats ==
    /\ pc = "create_team_match_stats"
    /\ LET r == create_team_match_stats(player_stats_df, fixtures_df, bootstrap_data)
       IN  /\ team_stats_agg' = r.agg
           /\ team_stats_df' = r.df
           /\ pc' = IF r.raised THEN "raised" ELSE "returned"
    /\ UNCHANGED <<args, bootstrap_data, fixtures_data, all_players_data, fixtures_df,
                   player_stats_df, players, player_idx, all_player_data, failed, saved,
                   steps, exit_code>>

NextTeam == CallCreateTeamMatchStats

SpecTeam == InitTeam /\ [][NextTeam]_vars

TeamReturned == pc = "returned" /\ team_stats_df.bound

\* the group key of a row, as the claims name it
KeyOf(row) ==
    <<Column(row, "team_id"), row.season, row.gameweek, row.match_id,
      row.opponent_team_id, row.was_home>>

\* the keys present in the player rows: those with every component known
PlayerKeys ==
    {k \in {KeyOf(player_stats_df.rows[i]) : i \in DOMAIN player_stats_df.rows} :
        notna(k[1]) /\ notna(k[3]) /\ notna(k[4]) /\ notna(k[5])}

PlayerGroup(key) == {i \in DOMAIN player_stats_df.rows : KeyOf(player_stats_df.rows[i]) = key}

IsSumOf(v, group, col) == v = SumColumn(player_stats_df.rows, group, col)

IsMaxOf(v, group, col) ==
    /\ \E i \in group : player_stats_df.rows[i][col] = v
    /\ \A i \in group : player_stats_df.rows[i][col] <= v

\* C6: before reconciliation there is one team row per group key present in
\* the player rows; its goals_scored, assists, yellow_cards, red_cards,
\* total_points and bps are the sums, its clean_sheets and goals_conceded
\* the maxima over the group's player rows.
C6_AggregatesPerGroup ==
    (TeamReturned /\ player_stats_df.rows # <<>>) =>
        /\ Len(team_stats_agg) = Cardinality(PlayerKeys)
        /\ \A key \in PlayerKeys :
              \E n \in DOMAIN team_stats_agg :
                  LET t == team_stats_agg[n]
                      g == PlayerGroup(key)
                  IN  /\ KeyOf(t) = key
                      /\ \A m \in DOMAIN team_stats_agg : KeyOf(team_stats_agg[m]) = key => m = n
                      /\ \A col \in {"goals_scored", "assists", "yellow_cards", "red_cards",
                                     "total_points", "bps"} : IsSumOf(t[col], g, col)
                      /\ \A col \in {"clean_sheets", "goals_conceded"} : IsMaxOf(t[col], g, col)

\* two players of team 1 in the same match with 1 and 2 goals: the team row
\* has 3 goals and the larger of the two goals_conceded values
C6_Witness ==
    /\ TeamReturned
    /\ \E n \in DOMAIN team_stats_agg :
          /\ Cardinality(PlayerGroup(KeyOf(team_stats_agg[n]))) = 2
          /\ team_stats_agg[n].goals_scored = 3
          /\ team_stats_agg[n].goals_conceded = 1

\* the aggregated row of a returned team row
AggregatedRow(t) == CHOOSE a \in Range(team_stats_agg) : KeyOf(a) = KeyOf(t)

\* the authoritative score of a returned row's own side and of the other side
OwnScore(t) == IF t.was_home THEN t.team_h_score ELSE t.team_a_score

OtherScore(t) == IF t.was_home THEN t.team_a_score ELSE t.team_h_score

\* C2: for every team row joined against a non-empty fixture table, home or
\* away: if the fixture score of the row's side is present then team_goals
\* is that score and team_goals_conceded the other side's score; if it is
\* absent (no matching fixture row, or a null score) both keep the values
\* aggregated from the player rows.
C2_ScoreReconciliation ==
    (TeamReturned /\ fixtures_df.rows # <<>>) =>
        \A n \in DOMAIN team_stats_df.rows :
            LET t == team_stats_df.rows[n]
            IN  IF notna(OwnScore(t))
                THEN /\ t.team_goals = OwnScore(t)
                     /\ t.team_goals_conceded = OtherScore(t)
                ELSE /\ t.team_goals = <<AggregatedRow(t).goals_scored>>
                     /\ t.team_goals_conceded = <<AggregatedRow(t).goals_conceded>>

\* the (team, match) pairs occurring in the player rows
TeamMatchPairs ==
    {<<k[1], k[4]>> : k \in PlayerKeys}

\* the returned team rows of a (team, match) pair
RowsOfPair(pair) ==
    {n \in DOMAIN team_stats_df.rows :
        /\ team_stats_df.rows[n].team_id = pair[1]
        /\ team_stats_df.rows[n].match_id = pair[2]}

\* C12: the returned table has exactly one row per (team, match) pair of the
\* player rows, whatever rows the fixture table holds: the left join adds,
\* duplicates and removes no team row.
C12_OneRowPerTeamMatch ==
    (TeamReturned /\ player_stats_df.rows # <<>>) =>
        /\ Len(team_stats_df.rows) = Len(team_stats_agg)
        /\ Len(team_stats_df.rows) = Cardinality(TeamMatchPairs)
        /\ \A pair \in TeamMatchPairs : Cardinality(RowsOfPair(pair)) = 1

\* the call has ended, by a return or by an exception
TeamCallEnded == pc \in {"returned", "raised"}

\* the aggregated team rows a player row is part of
TeamRowsOf(i) ==
    {n \in DOMAIN team_stats_agg : KeyOf(team_stats_agg[n]) = KeyOf(player_stats_df.rows[i])}

\* C14: on a non-empty player table, players missing from bootstrap or not,
\* the call returns and does not raise; a row without team_id is part of no
\* team row and a row with a team_id is part of exactly one.
C14_NeverRaisesOnPlayerTable ==
    (TeamCallEnded /\ player_stats_df.rows # <<>>) =>
        /\ pc = "returned"
        /\ team_stats_df.bound
        /\ \A i \in DOMAIN player_stats_df.rows :
              IF notna(Column(player_stats_df.rows[i], "team_id"))
              THEN Cardinality(TeamRowsOf(i)) = 1
              ELSE TeamRowsOf(i) = {}

----------------------------------------------------------------------------
(* FPLAPIClient.get_all_players_data, run_ingestion_pipeline and main *)

MaxElements == 2

\* what the API may answer: bootstrap-static with the first n players, ...
ElementLists == {SubSeq(Elements, 1, n) : n \in 0..MaxElements}

\* ... a fixture list, ...
PipelineFixtureLists ==
    {TeamFixtureList(c) :
        c \in {<<>>,
               <<<<1, <<1>>, <<1, 2>>, <<0>>, <<2, 1>>>>>>,
               <<<<1, <<1>>, <<1, 2>>, <<0>>, None>>>>,
               <<<<1, <<1>>, <<1, 2>>, <<0>>, <<2, 1>>>>,
                 <<2, <<2>>, <<3, 1>>, <<7>>, None>>>>}}

\* ... and the element-summary of a player
PipelinePlayerData ==
    {[history |-> <<>>], [history |-> <<EntryA>>], [history |-> <<EntryC, EntryB>>]}

\* --max-players: not given, 0 or 1
MaxPlayersArgs == {None, <<0>>, <<1>>}

Min(a, b) == IF a <= b THEN a ELSE b

\* if max_players: players = players[:max_players]
SelectPlayers(elements, max_players) ==
    IF notna(max_players) /\ max_players[1] # 0
    THEN SubSeq(elements, 1, Min(max_players[1], Len(elements)))
    ELSE elements

Started(name) == Append(steps, [name |-> name, raised |-> FALSE])

Raised(name) == Append(steps, [name |-> name, raised |-> TRUE])

\* save_json / save_dataframe: the file and the number of rows written
Saved(file, rows) == Append(saved, [file |-> file, rows |-> Len(rows)])

Init ==
    /\ pc = "fetch_bootstrap"
    /\ args \in [fetch_all_players : BOOLEAN, max_players : MaxPlayersArgs]
    /\ bootstrap_data = EmptyDict
    /\ fixtures_data = <<>>
    /\ all_players_data = <<>>
    /\ fixtures_df = Unbound
    /\ player_stats_df = Unbound
    /\ team_stats_df = Unbound
    /\ team_stats_agg = <<>>
    /\ players = <<>>
    /\ player_idx = 1
    /\ all_player_data = <<>>
    /\ failed = {}
    /\ saved = <<>>
    /\ steps = <<>>
    /\ exit_code = None

\* Step 1: client.get_bootstrap_static() and save_json
FetchBootstrap ==
    /\ pc = "fetch_bootstrap"
    /\ \E elements \in ElementLists : bootstrap_data' = Bootstrap(elements)
    /\ saved' = Saved("bootstrap-static.json", <<bootstrap_data'>>)
    /\ steps' = Started("fetch_bootstrap")
    /\ pc' = "fetch_fixtures"
    /\ UNCHANGED <<args, fixtures_data, all_players_data, fixtures_df, player_stats_df,
                   team_stats_df, team_stats_agg, players, player_idx, all_player_data,
                   failed, exit_code>>

\* FetchBootstrapFails with the exception swallowed: the run goes on
FetchBootstrapFailsGoesOn ==
    /\ pc = "fetch_bootstrap"
    /\ bootstrap_data' = Bootstrap(<<>>)
    /\ steps' = Raised("fetch_bootstrap")
    /\ pc' = "fetch_fixtures"
    /\ UNCHANGED <<args, fixtures_data, all_players_data, fixtures_df, player_stats_df,
                   team_stats_df, team_stats_agg, players, player_idx, all_player_data,
                   failed, saved, exit_code>>

\* _make_request raises in get_bootstrap_static
FetchBootstrapFails ==
    /\ pc = "fetch_bootstrap"
    /\ steps' = Raised("fetch_bootstrap")
    /\ pc' = "exception"
    /\ UNCHANGED <<args, bootstrap_data, fixtures_data, all_players_data, fixtures_df,
                   player_stats_df, team_stats_df, team_stats_agg, players, player_idx,
                   all_player_data, failed, saved, exit_code>>

\* Step 2: client.get_fixtures() and save_json
FetchFixtures ==
    /\ pc = "fetch_fixtures"
    /\ fixtures_data' \in PipelineFixtureLists
    /\ saved' = Saved("fixtures.json", fixtures_data')
    /\ steps' = Started("fetch_fixtures")
    /\ pc' = "fetch_players"
    /\ UNCHANGED <<args, bootstrap_data, all_players_data, fixtures_df, player_stats_df,
                   team_stats_df, team_stats_agg, players, player_idx, all_player_data,
                   failed, exit_code>>

FetchFixturesFails ==
    /\ pc = "fetch_fixtures"
    /\ steps' = Raised("fetch_fixtures")
    /\ pc' = "exception"
    /\ UNCHANGED <<args, bootstrap_data, fixtures_data, all_players_data, fixtures_df,
                   player_stats_df, team_stats_df, team_stats_agg, players, player_idx,
                   all_player_data, failed, saved, exit_code>>

\* Step 3 without --fetch-all-players: all_players_data stays []
SkipFetchPlayers ==
    /\ pc = "fetch_players"
    /\ ~args.fetch_all_players
    /\ pc' = "fixtures_table"
    /\ UNCHANGED <<args, bootstrap_data, fixtures_data, all_players_data, fixtures_df,
                   player_stats_df, team_stats_df, team_stats_agg, players, player_idx,
                   all_player_data, failed, saved, steps, exit_code>>

\* get_all_players_data: its own bootstrap fetch (the server answers as in
\* step 1) and the selection of the players
BeginGetAllPlayersData ==
    /\ pc = "fetch_players"
    /\ args.fetch_all_players
    /\ players' = SelectPlayers(bootstrap_data.elements, args.max_players)
    /\ player_idx' = 1
    /\ all_player_data' = <<>>
    /\ steps' = Started("fetch_players")
    /\ pc' = "fetch_player"
    /\ UNCHANGED <<args, bootstrap_data, fixtures_data, all_players_data, fixtures_df,
                   player_stats_df, team_stats_df, team_stats_agg, failed, saved, exit_code>>

\* get_all_players_data: its bootstrap fetch raises, outside the try block
GetAllPlayersBootstrapFails ==
    /\ pc = "fetch_players"
    /\ args.fetch_all_players
    /\ steps' = Raised("fetch_players")
    /\ pc' = "exception"
    /\ UNCHANGED <<args, bootstrap_data, fixtures_data, all_players_data, fixtures_df,
                   player_stats_df, team_stats_df, team_stats_agg, players, player_idx,
                   all_player_data, failed, saved, exit_code>>

\* the loop body: get_player_data returns and the entry is appended
FetchPlayerOk ==
    /\ pc = "fetch_player"
    /\ player_idx <= Len(players)
    /\ \E player_data \in PipelinePlayerData :
          all_player_data' = Append(all_player_data,
                                    [player_id |-> players[player_idx].id,
                                     data |-> player_data])
    /\ player_idx' = player_idx + 1
    /\ UNCHANGED <<pc, args, bootstrap_data, fixtures_data, all_players_data, fixtures_df,
                   player_stats_df, team_stats_df, team_stats_agg, players, failed,
                   saved, steps, exit_code>>

\* FetchPlayerFails with an entry without data appended for the player
FetchPlayerFailsAppends ==
    /\ pc = "fetch_player"
    /\ player_idx <= Len(players)
    /\ failed' = failed \cup {players[player_idx].id}
    /\ all_player_data' = Append(all_player_data,
                                 [player_id |-> players[player_idx].id, data |-> EmptyDict])
    /\ player_idx' = player_idx + 1
    /\ UNCHANGED <<pc, args, bootstrap_data, fixtures_data, all_players_data, fixtures_df,
                   player_stats_df, team_stats_df, team_stats_agg, players, saved, steps,
                   exit_code>>

\* the loop body: get_player_data raises, the except clause prints and continues
FetchPlayerFails ==
    /\ pc = "fetch_player"
    /\ player_idx <= Len(players)
    /\ failed' = failed \cup {players[player_idx].id}
    /\ player_idx' = player_idx + 1
    /\ UNCHANGED <<pc, args, bootstrap_data, fixtures_data, all_players_data, fixtures_df,
                   player_stats_df, team_stats_df, team_stats_agg, players,
                   all_player_data, saved, steps, exit_code>>

\* the loop is over: return all_player_data; the pipeline saves it
ReturnAllPlayersData ==
    /\ pc = "fetch_player"
    /\ player_idx > Len(players)
    /\ all_players_data' = all_player_data
    /\ saved' = Saved("all_players_data.json", all_player_data)
    /\ pc' = "fixtures_table"
    /\ UNCHANGED <<args, bootstrap_data, fixtures_data, fixtures_df, player_stats_df,
                   team_stats_df, team_stats_agg, players, player_idx, all_player_data,
                   failed, steps, exit_code>>

\* Step 4, if fixtures_data: build and save the fixtures table
BuildFixturesTable ==
    /\ pc = "fixtures_table"
    /\ fixtures_data # <<>>
    /\ fixtures_df' = create_fixtures_table(fixtures_data, bootstrap_data, Season)
    /\ saved' = Saved("fixtures.parquet", fixtures_df'.rows)
    /\ steps' = Started("fixtures_table")
    /\ pc' = "player_table"
    /\ UNCHANGED <<args, bootstrap_data, fixtures_data, all_players_data, player_stats_df,
                   team_stats_df, team_stats_agg, players, player_idx, all_player_data,
                   failed, exit_code>>

\* fixtures_data is empty: fixtures_df is not assigned
SkipFixturesTable ==
    /\ pc = "fixtures_table"
    /\ fixtures_data = <<>>
    /\ pc' = "player_table"
    /\ UNCHANGED <<args, bootstrap_data, fixtures_data, all_players_data, fixtures_df,
                   player_stats_df, team_stats_df, team_stats_agg, players, player_idx,
                   all_player_data, failed, saved, steps, exit_code>>

\* if all_players_data: build and save the player table
BuildPlayerTable ==
    /\ pc = "player_table"
    /\ all_players_data # <<>>
    /\ player_stats_df' = create_player_match_stats_raw(bootstrap_data, all_players_data, Season)
    /\ saved' = Saved("player_match_stats_raw.parquet", player_stats_df'.rows)
    /\ steps' = Started("player_table")
    /\ pc' = "team_table"
    /\ UNCHANGED <<args, bootstrap_data, fixtures_data, all_players_data, fixtures_df,
                   team_stats_df, team_stats_agg, players, player_idx, all_player_data,
                   failed, exit_code>>

\* else: the two warnings
SkipPlayerTable ==
    /\ pc = "player_table"
    /\ all_players_data = <<>>
    /\ pc' = "done"
    /\ UNCHANGED <<args, bootstrap_data, fixtures_data, all_players_data, fixtures_df,
                   player_stats_df, team_stats_df, team_stats_agg, players, player_idx,
                   all_player_data, failed, saved, steps, exit_code>>

\* if not fixtures_df.empty, with fixtures_df assigned: build and save the
\* team table if the fixtures table has rows
BuildTeamTable ==
    /\ pc = "team_table"
    /\ fixtures_df.bound
    /\ LET r == create_team_match_stats(player_stats_df, fixtures_df, bootstrap_data)
       IN  IF fixtures_df.rows = <<>>
           THEN /\ pc' = "done"
                /\ UNCHANGED <<team_stats_df, team_stats_agg, saved, steps>>
           ELSE IF r.raised
           THEN /\ pc' = "exception"
                /\ steps' = Raised("team_table")
                /\ UNCHANGED <<team_stats_df, team_stats_agg, saved>>
           ELSE /\ pc' = "done"
                /\ team_stats_agg' = r.agg
                /\ team_stats_df' = r.df
                /\ saved' = Saved("team_match_stats.parquet", r.df.rows)
                /\ steps' = Started("team_table")
    /\ UNCHANGED <<args, bootstrap_data, fixtures_data, all_players_data, fixtures_df,
                   player_stats_df, players, player_idx, all_player_data, failed,
                   exit_code>>

\* if not fixtures_df.empty, with fixtures_df never assigned: UnboundLocalError
TeamTableUnboundLocal ==
    /\ pc = "team_table"
    /\ ~fixtures_df.bound
    /\ steps' = Raised("team_table")
    /\ pc' = "exception"
    /\ UNCHANGED <<args, bootstrap_data, fixtures_data, all_players_data, fixtures_df,
                   player_stats_df, team_stats_df, team_stats_agg, players, player_idx,
                   all_player_data, failed, saved, exit_code>>

\* main: run_ingestion_pipeline returned, the process ends with status 0
MainReturns ==
    /\ pc = "done"
    /\ exit_code' = <<0>>
    /\ pc' = "exited"
    /\ UNCHANGED <<args, bootstrap_data, fixtures_data, all_players_data, fixtures_df,
                   player_stats_df, team_stats_df, team_stats_agg, players, player_idx,
                   all_player_data, failed, saved, steps>>

\* main: except Exception prints the error and the traceback, sys.exit(1)
MainExcept ==
    /\ pc = "exception"
    /\ exit_code' = <<1>>
    /\ pc' = "exited"
    /\ UNCHANGED <<args, bootstrap_data, fixtures_data, all_players_data, fixtures_df,
                   player_stats_df, team_stats_df, team_stats_agg, players, player_idx,
                   all_player_data, failed, saved, steps>>

Next ==
    \/ FetchBootstrap
    \/ FetchBootstrapFails
    \/ FetchFixtures
    \/ FetchFixturesFails
    \/ SkipFetchPlayers
    \/ BeginGetAllPlayersData
    \/ GetAllPlayersBootstrapFails
    \/ FetchPlayerOk
    \/ FetchPlayerFails
    \/ ReturnAllPlayersData
    \/ BuildFixturesTable
    \/ SkipFixturesTable
    \/ BuildPlayerTable
    \/ SkipPlayerTable
    \/ BuildTeamTable
    \/ TeamTableUnboundLocal
    \/ MainReturns
    \/ MainExcept

Spec == Init /\ [][Next]_vars

----------------------------------------------------------------------------
(* Claims about the pipeline *)

FetchSteps == {"fetch_bootstrap", "fetch_fixtures", "fetch_players"}

\* no API call of the run raised
NoFetchRaised == \A i \in DOMAIN steps : steps[i].raised => steps[i].name \notin FetchSteps

\* C3: whatever the fixture list and the fetched player list, empty or not,
\* run_ingestion_pipeline completes without raising (the run ends with
\* status 0 unless an API call failed), and the team stats table is built
\* exactly when the player stats table and the fixtures table are non-empty.
C3_CompletesAndBuildsTeamTable ==
    (pc = "exited" /\ NoFetchRaised) =>
        /\ exit_code = <<0>>
        /\ team_stats_df.bound <=> (player_stats_df.rows # <<>> /\ fixtures_df.rows # <<>>)

DerivedFiles ==
    {"fixtures.parquet", "player_match_stats_raw.parquet", "team_match_stats.parquet"}

\* C8: a derived table is written to storage only if it has rows.
C8_NoEmptyDerivedTableSaved ==
    \A i \in DOMAIN saved : saved[i].file \in DerivedFiles => saved[i].rows > 0

\* get_all_players_data has returned to the pipeline
GotAllPlayersData == \E i \in DOMAIN saved : saved[i].file = "all_players_data.json"

\* C9: a failing detail fetch is skipped and the batch goes on: the list
\* returned holds one {player_id, data} entry for each selected player whose
\* fetch succeeded, in bootstrap order, and none for a player whose fetch
\* failed; such a failure never leaves get_all_players_data as an exception.
C9_FailedPlayerSkipped ==
    /\ GotAllPlayersData =>
          /\ player_idx = Len(players) + 1
          /\ [i \in DOMAIN all_players_data |-> all_players_data[i].player_id]
                = SelectSeq([i \in DOMAIN players |-> players[i].id],
                            LAMBDA id : id \notin failed)
          /\ \A i \in DOMAIN all_players_data :
                /\ DOMAIN all_players_data[i] = {"player_id", "data"}
                /\ all_players_data[i].data \in PipelinePlayerData
    /\ failed # {} => (pc = "exception" => steps[Len(steps)].name # "fetch_players")

\* the first selected player's fetch failed, the second one's succeeded
C9_Witness ==
    /\ GotAllPlayersData
    /\ Len(players) = 2
    /\ failed = {players[1].id}
    /\ Len(all_players_data) = 1
    /\ all_players_data[1].player_id = players[2].id

\* get_all_players_data has selected the players it is going to fetch
PlayersSelected ==
    \E i \in DOMAIN steps : steps[i] = [name |-> "fetch_players", raised |-> FALSE]

\* C13: with a cap given, 0 included, the players selected are the first
\* max_players of the bootstrap player list, so at most max_players players
\* are fetched; with no cap given all players are selected.
C13_CapRespected ==
    PlayersSelected =>
        /\ notna(args.max_players) =>
              /\ Len(players) <= args.max_players[1]
              /\ players = SubSeq(bootstrap_data.elements, 1, Len(players))
              /\ Len(players) < args.max_players[1] => players = bootstrap_data.elements
              /\ Len(all_player_data) + Cardinality(failed) <= args.max_players[1]
        /\ ~notna(args.max_players) => players = bootstrap_data.elements

StepRank(name) ==
    CASE name = "fetch_bootstrap" -> 1
      [] name = "fetch_fixtures" -> 2
      [] name = "fetch_players" -> 3
      [] name = "fixtures_table" -> 4
      [] name = "player_table" -> 5
      [] name = "team_table" -> 6

\* the step that writes a file
StepOfFile(file) ==
    CASE file = "bootstrap-static.json" -> "fetch_bootstrap"
      [] file = "fixtures.json" -> "fetch_fixtures"
      [] file = "all_players_data.json" -> "fetch_players"
      [] file = "fixtures.parquet" -> "fixtures_table"
      [] file = "player_match_stats_raw.parquet" -> "player_table"
      [] file = "team_match_stats.parquet" -> "team_table"

SomeStepRaised == \E i \in DOMAIN steps : steps[i].raised

\* C10: the steps run in the order bootstrap fetch, fixtures fetch, player
\* fetch, fixtures table, player table, team table; a step that raises is
\* the last step of the run: nothing is fetched, built or written after it,
\* and the run ends with exit status 1.  If the bootstrap fetch raises,
\* nothing at all has been fetched, built or written.
C10_RaisingStepEndsRun ==
    /\ \A i, j \in DOMAIN steps : i < j => StepRank(steps[i].name) < StepRank(steps[j].name)
    /\ \A i \in DOMAIN steps : steps[i].raised => i = Len(steps)
    /\ \A i \in DOMAIN saved :
          \E j \in DOMAIN steps : steps[j].name = StepOfFile(saved[i].file) /\ ~steps[j].raised
    /\ fixtures_df.bound => \E j \in DOMAIN steps : steps[j] = [name |-> "fixtures_table", raised |-> FALSE]
    /\ player_stats_df.bound => \E j \in DOMAIN steps : steps[j] = [name |-> "player_table", raised |-> FALSE]
    /\ team_stats_df.bound => \E j \in DOMAIN steps : steps[j] = [name |-> "team_table", raised |-> FALSE]
    /\ SomeStepRaised => pc \in {"exception", "exited"}
    /\ (pc = "exited" /\ SomeStepRaised) => exit_code = <<1>>
    /\ (pc = "exited" /\ ~SomeStepRaised) => exit_code = <<0>>
    /\ (steps # <<>> /\ steps[1].raised) =>
          /\ steps = <<[name |-> "fetch_bootstrap", raised |-> TRUE]>>
          /\ saved = <<>>
          /\ fixtures_data = <<>>
          /\ all_players_data = <<>>
          /\ ~fixtures_df.bound /\ ~player_stats_df.bound /\ ~team_stats_df.bound

\* the run ended after a failed bootstrap fetch
C10_Witness ==
    /\ pc = "exited"
    /\ exit_code = <<1>>
    /\ steps = <<[name |-> "fetch_bootstrap", raised |-> TRUE]>>

====
